---- MODULE Spec2Model ----
(***************************************************************************)
(* Model of path_planner/node_planner.py (class PlannerNode).              *)
(*                                                                         *)
(* The node is spun by a MultiThreadedExecutor and all its subscriptions   *)
(* share one ReentrantCallbackGroup, so cb_start_routine, cb_planner_pause *)
(* and cb_kiwibot_status may run at the same time, cb_start_routine also   *)
(* against itself.  Each executor thread that can run cb_start_routine is  *)
(* a process with a program counter; one step of a process is one read    *)
(* or one write of an attribute of the node that another callback can      *)
(* write, together with the work on locals around it: the interpreter may  *)
(* switch threads between any two bytecodes, and does so at every call.    *)
(*                                                                         *)
(* Units: the yaw, ang and dang are doubles, in degrees; the angle of a    *)
(* direct call of get_profile_turn is in tenths of a degree; distances of  *)
(* the csv are in millimetres (so that distance / 100, a value in metres,  *)
(* rounded to two decimals is a rounding to a multiple of 10 mm),          *)
(* difficulties in hundredths, durations in seconds.                       *)
(***************************************************************************)
EXTENDS Integers, Sequences, FiniteSets, TLC

\* Bound on the number of start messages delivered in one behaviour.
MaxStarts == 2

\* Executor worker threads that can run cb_start_routine.
Threads == {"t1", "t2"}

VARIABLES
    in_execution,   \* self._in_execution
    is_paused,      \* self.is_paused
    yaw,            \* self.kiwibot_state.yaw
    yaml_exists,    \* os.path.isfile(routines.yaml) at construction
    routines,       \* self.routines when routines.yaml was read
    csv_exists,     \* os.path.isfile(key_points.csv)
    csv,            \* rows of key_points.csv, header excluded
    map_points,     \* self.map_points
    map_duration,   \* self.map_duration
    map_distance,   \* self.map_distance
    map_difficulty, \* self.map_difficulty
    way_points,     \* self.way_points
    pc,             \* per thread: position in cb_start_routine
    rid,            \* per thread: msg.data
    idx,            \* per thread: loop variable idx
    n,              \* per thread: length of the sliced list the loop iterates
    dang,           \* per thread: local dang
    resolved,       \* per thread: outcome of this invocation's read_keypoints
    out,            \* per thread: what this invocation emitted, in order
    starts,         \* start messages delivered so far
    rk,             \* per thread: the locals of its call of read_keypoints
                    \* and of the statements that compute the heading
    call            \* a direct call of one of the profile methods and its result

vars == <<in_execution, is_paused, yaw, yaml_exists, routines, csv_exists, csv, map_points,
          map_duration, map_distance, map_difficulty, way_points, pc, rid,
          idx, n, dang, resolved, out, starts, rk, call>>

shared == <<in_execution, is_paused, yaw, map_points, map_duration,
            map_distance, map_difficulty, way_points>>
env == <<yaml_exists, routines, csv_exists, csv, call>>

----------------------------------------------------------------------------
\* Helpers


Abs(x) == IF x < 0 THEN -x ELSE x

Last(s) == s[Len(s)]

Ev(k, i) == [k |-> k, i |-> i]

Kinds(s) == {s[j].k : j \in 1..Len(s)}

----------------------------------------------------------------------------
\* Binary floating point
\*
\* The node holds distances, difficulties and sample times as Python floats
\* (IEEE 754 doubles).  A double is modelled exactly: zero is DblZero and a
\* positive double is [b |-> its 53 significand bits, most significant
\* first, e |-> the exponent of the last bit], with the value
\* (b read as a binary integer) * 2^e.  Every operation computes the exact
\* result as a bit string and rounds it once, to nearest, ties to even, as
\* the hardware does.  These are magnitudes; the doubles of either sign
\* follow further down.

SigBits == 53

\* Bits generated below the binary point by a division before rounding.
GuardBits == 80

DblZero == [b |-> <<>>, e |-> 0]

\* k zeros (none for k <= 0).
Zeros(k) == [i \in 1..(IF k > 0 THEN k ELSE 0) |-> 0]

StripZeros(s) ==
    IF \A i \in 1..Len(s) : s[i] = 0 THEN <<>>
    ELSE LET j == CHOOSE i \in 1..Len(s) :
                     s[i] = 1 /\ \A i2 \in 1..(i - 1) : s[i2] = 0
         IN  SubSeq(s, j, Len(s))

AnyOne(s) == \E i \in 1..Len(s) : s[i] = 1

RECURSIVE IntToBits(_)
IntToBits(k) == IF k = 0 THEN <<>> ELSE IntToBits(k \div 2) \o <<k % 2>>

RECURSIVE BitsToInt(_)
BitsToInt(s) ==
    IF s = <<>> THEN 0 ELSE 2 * BitsToInt(SubSeq(s, 1, Len(s) - 1)) + s[Len(s)]

\* s + 1 on a bit string that is not all ones.
IncBits(s) ==
    LET j == CHOOSE i \in 1..Len(s) :
                s[i] = 0 /\ \A i2 \in (i + 1)..Len(s) : s[i2] = 1
    IN  [i \in 1..Len(s) |-> IF i < j THEN s[i] ELSE IF i = j THEN 1 ELSE 0]

\* The long operations below work on groups of Group bits at a time.
Group == 8

Pow2(k) == IF k = 0 THEN 1 ELSE IF k = 1 THEN 2 ELSE IF k = 2 THEN 4
           ELSE IF k = 3 THEN 8 ELSE IF k = 4 THEN 16 ELSE IF k = 5 THEN 32
           ELSE IF k = 6 THEN 64 ELSE IF k = 7 THEN 128 ELSE 256

\* s with zeros in front up to a whole number of groups.
Padded(s) == Zeros((Group - (Len(s) % Group)) % Group) \o s

\* The g-th group of s, counted from the front, as an integer.
GroupVal(s, g) ==
    128 * s[g * Group - 7] + 64 * s[g * Group - 6] + 32 * s[g * Group - 5]
    + 16 * s[g * Group - 4] + 8 * s[g * Group - 3] + 4 * s[g * Group - 2]
    + 2 * s[g * Group - 1] + s[g * Group]

\* v < 2^Group as a group of bits.
GroupBits(v) ==
    <<v \div 128, (v \div 64) % 2, (v \div 32) % 2, (v \div 16) % 2,
      (v \div 8) % 2, (v \div 4) % 2, (v \div 2) % 2, v % 2>>

\* a + sign * b group by group from the last group on, c the carry or borrow.
RECURSIVE Ripple(_, _, _, _, _, _)
Ripple(a, b, sign, g, c, acc) ==
    IF g = 0 THEN IntToBits(c) \o acc
    ELSE LET v == GroupVal(a, g) + sign * (GroupVal(b, g) + c) IN
         Ripple(a, b, sign, g - 1,
                IF sign = 1 THEN v \div Pow2(Group) ELSE (IF v < 0 THEN 1 ELSE 0),
                GroupBits(v % Pow2(Group)) \o acc)

\* a + b for bit strings of one length; the result may start with zeros.
AddBits(a, b) == Ripple(Padded(a), Padded(b), 1, Len(Padded(a)) \div Group, 0, <<>>)

\* a - b for bit strings of one length with a >= b, without leading zeros.
SubBits(a, b) ==
    StripZeros(Ripple(Padded(a), Padded(b), -1, Len(Padded(a)) \div Group,
                      0, <<>>))

\* a < b for bit strings of one length.
LessBits(a, b) ==
    \E i \in 1..Len(a) :
        a[i] < b[i] /\ \A i2 \in 1..(i - 1) : a[i2] = b[i2]

RECURSIVE MulRipple(_, _, _, _, _)
MulRipple(s, k, g, c, acc) ==
    IF g = 0 THEN IntToBits(c) \o acc
    ELSE LET v == GroupVal(s, g) * k + c IN
         MulRipple(s, k, g - 1, v \div Pow2(Group),
                   GroupBits(v % Pow2(Group)) \o acc)

\* s * k for a small positive integer k.
MulBits(s, k) == MulRipple(Padded(s), k, Len(Padded(s)) \div Group, 0, <<>>)

RECURSIVE DivRipple(_, _, _, _, _)
DivRipple(s, k, g, r, acc) ==
    IF g > Len(s) \div Group THEN [q |-> acc, r |-> r]
    ELSE LET v == r * Pow2(Group) + GroupVal(s, g) IN
         DivRipple(s, k, g + 1, v % k, acc \o GroupBits(v \div k))

\* Quotient and remainder of s by a small positive k; the quotient may start
\* with zeros.
DivBits(s, k) == DivRipple(Padded(s), k, 1, 0, <<>>)

\* The double nearest the exact value (s as a binary integer) * 2^e, plus a
\* positive amount below 2^e when sticky.
RoundToDbl(s, e, sticky) ==
    LET t == StripZeros(s) IN
    IF t = <<>> THEN DblZero
    ELSE IF Len(t) <= SigBits
    THEN [b |-> t \o Zeros(SigBits - Len(t)), e |-> e - (SigBits - Len(t))]
    ELSE LET keep == SubSeq(t, 1, SigBits)
             rest == SubSeq(t, SigBits + 1, Len(t))
             up == /\ rest[1] = 1
                   /\ sticky \/ AnyOne(Tail(rest)) \/ keep[SigBits] = 1
             e2 == e + Len(rest)
         IN  IF ~up THEN [b |-> keep, e |-> e2]
             ELSE IF \A i \in 1..SigBits : keep[i] = 1
             THEN [b |-> <<1>> \o Zeros(SigBits - 1), e |-> e2 + 1]
             ELSE [b |-> IncBits(keep), e |-> e2]

\* The double nearest p / q for integers p >= 0, q > 0: what float() makes
\* of a decimal numeral, and the quotient of two integer-valued doubles.
Dbl(p, q) ==
    LET d == DivBits(IntToBits(p) \o Zeros(GuardBits), q)
    IN  RoundToDbl(d.q, -GuardBits, d.r # 0)

\* The bit strings of x and y over their common last exponent, at one length.
Aligned(x, y) ==
    LET e == IF x.e < y.e THEN x.e ELSE y.e
        a == x.b \o Zeros(x.e - e)
        b == y.b \o Zeros(y.e - e)
        L == IF Len(a) > Len(b) THEN Len(a) ELSE Len(b)
    IN  [a |-> Zeros(L - Len(a)) \o a, b |-> Zeros(L - Len(b)) \o b, e |-> e]

\* x + y
DblAdd(x, y) ==
    IF x = DblZero THEN y
    ELSE IF y = DblZero THEN x
    ELSE LET al == Aligned(x, y) IN RoundToDbl(AddBits(al.a, al.b), al.e, FALSE)

\* x / k for a small positive integer k
DblDivInt(x, k) ==
    IF x = DblZero THEN x
    ELSE LET d == DivBits(x.b \o Zeros(GuardBits), k)
         IN  RoundToDbl(d.q, x.e - GuardBits, d.r # 0)

\* x * k for a small positive integer k
DblMulInt(x, k) ==
    IF x = DblZero THEN x ELSE RoundToDbl(MulBits(x.b, k), x.e, FALSE)

DblLess(x, y) ==
    IF y = DblZero THEN FALSE
    ELSE IF x = DblZero THEN TRUE
    ELSE LET al == Aligned(x, y) IN LessBits(al.a, al.b)

\* The integer nearest the exact value (s as a binary integer) * 2^e, ties
\* to even.
NearestInt(s, e) ==
    IF e >= 0 THEN BitsToInt(s \o Zeros(e))
    ELSE LET t == Zeros(-e - Len(s) + 1) \o s
             whole == BitsToInt(SubSeq(t, 1, Len(t) + e))
             frac == SubSeq(t, Len(t) + e + 1, Len(t))
         IN  IF frac[1] = 1 /\ (AnyOne(Tail(frac)) \/ whole % 2 = 1)
             THEN whole + 1 ELSE whole

\* round(x, 2) of a Python float, in hundredths: the decimal with two places
\* nearest the exact value of x, ties to even.
PyRound2(x) ==
    IF x = DblZero THEN 0 ELSE NearestInt(MulBits(x.b, 100), x.e)

\* round(x, 2) of a numpy float64, in hundredths: numpy rounds the double
\* x * 100 to the nearest integer.
NpRound2(x) ==
    IF x = DblZero THEN 0
    ELSE LET y == DblMulInt(x, 100) IN NearestInt(y.b, y.e)

----------------------------------------------------------------------------
\* Signed doubles, float32 values and the arc tangent
\*
\* The angles of the node (the yaw of the status message, ang, dang) are
\* doubles of either sign: [neg |-> whether the value is below zero,
\* mag |-> its magnitude, a double as above].

\* Significand bits of a float32, the type of Kiwibot.yaw.
Sig32Bits == 24

\* a + b for bit strings of any lengths.
AddAny(a, b) ==
    LET L == IF Len(a) > Len(b) THEN Len(a) ELSE Len(b)
    IN  AddBits(Zeros(L - Len(a)) \o a, Zeros(L - Len(b)) \o b)

\* a - b for bit strings of any lengths with a >= b.
SubAny(a, b) ==
    LET L == IF Len(a) > Len(b) THEN Len(a) ELSE Len(b)
    IN  SubBits(Zeros(L - Len(a)) \o a, Zeros(L - Len(b)) \o b)

\* a * b for bit strings, b a whole number of groups, taken group by group
\* from the front (the test on Len(acc) has acc computed before the next
\* group is taken).
RECURSIVE MulLong(_, _, _, _)
MulLong(a, b, g, acc) ==
    IF g > Len(b) \div Group \/ Len(acc) < 0 THEN acc
    ELSE MulLong(a, b, g + 1,
                 StripZeros(AddAny(acc \o Zeros(Group),
                                   MulBits(a, GroupVal(b, g)))))

\* x * y
DblMul(x, y) ==
    IF x = DblZero \/ y = DblZero THEN DblZero
    ELSE RoundToDbl(MulLong(x.b, Padded(y.b), 1, <<>>), x.e + y.e, FALSE)

\* x - y for x >= y
DblDiff(x, y) ==
    IF y = DblZero THEN x
    ELSE LET al == Aligned(x, y) IN RoundToDbl(SubBits(al.a, al.b), al.e, FALSE)

\* The double of the float32 nearest p / q for integers p >= 0, q > 0.
Flt32(p, q) ==
    LET d == DivBits(IntToBits(p) \o Zeros(GuardBits), q)
        t == StripZeros(d.q)
    IN  IF t = <<>> THEN DblZero
        ELSE IF Len(t) <= Sig32Bits THEN RoundToDbl(t, -GuardBits, FALSE)
        ELSE LET keep == SubSeq(t, 1, Sig32Bits)
                 rest == SubSeq(t, Sig32Bits + 1, Len(t))
                 up == /\ rest[1] = 1
                       /\ d.r # 0 \/ AnyOne(Tail(rest)) \/ keep[Sig32Bits] = 1
                 e2 == Len(rest) - GuardBits
             IN  IF ~up THEN RoundToDbl(keep, e2, FALSE)
                 ELSE IF \A i \in 1..Sig32Bits : keep[i] = 1
                 THEN RoundToDbl(<<1>>, e2 + Sig32Bits, FALSE)
                 ELSE RoundToDbl(IncBits(keep), e2, FALSE)

\* The integer part of the magnitude x.
TruncInt(x) ==
    IF x = DblZero \/ Len(x.b) + x.e <= 0 THEN 0
    ELSE IF x.e >= 0 THEN BitsToInt(x.b \o Zeros(x.e))
    ELSE BitsToInt(SubSeq(x.b, 1, Len(x.b) + x.e))

\* The signed double of sign neg and magnitude mag; zero has no sign.
Sgn(neg, mag) == [neg |-> neg /\ mag # DblZero, mag |-> mag]

\* The signed double of the integer k.
SInt(k) == Sgn(k < 0, RoundToDbl(IntToBits(Abs(k)), 0, FALSE))

\* The signed double of the float32 nearest p / q.
SFlt32(p, q) == Sgn(p < 0, Flt32(Abs(p), q))

SgnNeg(x) == Sgn(~x.neg, x.mag)

\* x + y
SgnAdd(x, y) ==
    IF x.neg = y.neg THEN Sgn(x.neg, DblAdd(x.mag, y.mag))
    ELSE IF DblLess(x.mag, y.mag) THEN Sgn(y.neg, DblDiff(y.mag, x.mag))
    ELSE Sgn(x.neg, DblDiff(x.mag, y.mag))

\* x - y
SgnSub(x, y) == SgnAdd(x, SgnNeg(y))

\* x < y
SgnLess(x, y) ==
    IF x.neg /\ ~y.neg THEN TRUE
    ELSE IF ~x.neg /\ y.neg THEN FALSE
    ELSE IF x.neg THEN DblLess(y.mag, x.mag)
    ELSE DblLess(x.mag, y.mag)

\* int(x): the integer part, towards zero.
SgnInt(x) == IF x.neg THEN -TruncInt(x.mag) ELSE TruncInt(x.mag)

\* Bits after the binary point of the fixed point numbers the arc tangent
\* is computed in.
FracBits == 96

\* The bits of a sequence of hexadecimal digits.
RECURSIVE HexBits(_)
HexBits(h) ==
    IF h = <<>> THEN <<>>
    ELSE [i \in 1..4 |-> (h[1] \div Pow2(4 - i)) % 2] \o HexBits(Tail(h))

\* pi in fixed point: 3.243F6A8885A308D313198A2E (hexadecimal).
PiBits ==
    StripZeros(HexBits(<<3, 2, 4, 3, 15, 6, 10, 8, 8, 8, 5, 10, 3, 0, 8, 13, 3,
                         1, 3, 1, 9, 8, 10, 2, 14>>))

\* s with its last k bits dropped.
Shr(s, k) == SubSeq(s, 1, Len(s) - k)

\* The double 180.0 / pi that rad2deg multiplies by: 0x1.ca5dc1a63c1f8p+5.
RadToDeg ==
    [b |-> <<1>> \o HexBits(<<12, 10, 5, 13, 12, 1, 10, 6, 3, 12, 1, 15, 8>>),
     e |-> -47]

\* Euler's series for arctan(p / q) in fixed point: term k is term k - 1
\* times p^2 / (p^2 + q^2) times 2k / (2k + 1), with p2 = p^2 and
\* N = p^2 + q^2.  st holds the number k of the next term, the last term and
\* the sum so far; EulerStep adds term k, unless it is zero at this
\* precision and the sum is done.
EulerStep(st, p2, N) ==
    LET t1 == StripZeros(DivBits(MulBits(st.term, p2), N).q)
        t2 == IF t1 = <<>> THEN <<>>
              ELSE StripZeros(DivBits(MulBits(t1, 2 * st.k), 2 * st.k + 1).q)
    IN  IF st.done \/ t2 = <<>> THEN [st EXCEPT !.done = TRUE]
        ELSE [k |-> st.k + 1, term |-> t2,
              sum |-> StripZeros(AddAny(st.sum, t2)), done |-> FALSE]

\* Up to j more terms of the series.
RECURSIVE EulerSteps(_, _, _, _)
EulerSteps(st, j, p2, N) ==
    IF st.done \/ j = 0 THEN st
    ELSE EulerSteps(EulerStep(st, p2, N), j - 1, p2, N)

\* The sum of the series, taken Group terms at a time.
RECURSIVE EulerSum(_, _, _)
EulerSum(st, p2, N) ==
    IF st.done THEN st.sum ELSE EulerSum(EulerSteps(st, Group, p2, N), p2, N)

\* arctan(p / q) in fixed point for 0 <= p <= q, cut off below the last
\* bit.
ArcTanSeries(p, q) ==
    LET N == p * p + q * q
        one == <<1>> \o Zeros(FracBits)
        s == EulerSum([k |-> 1, term |-> one, sum |-> one, done |-> FALSE],
                      p * p, N)
    IN  IF s = <<>> THEN <<>>
        ELSE StripZeros(DivBits(MulBits(MulBits(s, p), q), N).q)

\* c - r in fixed point, r possibly zero.
Less(c, r) == IF r = <<>> THEN c ELSE SubAny(c, r)

\* arctan(p / q) in fixed point for 0 < p <= q; for p / q above tan(pi / 8)
\* as pi / 4 - arctan((q - p) / (q + p)).
ArcTanFixed(p, q) ==
    IF q * q - 2 * p * q - p * p < 0
    THEN Less(Shr(PiBits, 2), ArcTanSeries(q - p, q + p))
    ELSE ArcTanSeries(p, q)

\* The angle of magnitude r to the nearer axis as the angle to the positive
\* x axis: from pi / 2 when the direction is steep, and that from pi when
\* it points left.
FromAxis(r, steep, left) ==
    IF left
    THEN Less(PiBits, IF steep THEN Less(Shr(PiBits, 1), r) ELSE r)
    ELSE IF steep THEN Less(Shr(PiBits, 1), r)
    ELSE r

\* The magnitude of arctan2(dy, dx) in fixed point, dy and dx not both 0.
ArcTan2Fixed(dy, dx) ==
    FromAxis(IF dy = 0 \/ dx = 0 THEN <<>>
             ELSE IF Abs(dy) <= Abs(dx) THEN ArcTanFixed(Abs(dy), Abs(dx))
             ELSE ArcTanFixed(Abs(dx), Abs(dy)),
             Abs(dy) > Abs(dx), dx < 0)

\* The double just above x.
DblUp(x) ==
    IF \A i \in 1..SigBits : x.b[i] = 1
    THEN [b |-> <<1>> \o Zeros(SigBits - 1), e |-> x.e + 1]
    ELSE [b |-> IncBits(x.b), e |-> x.e]

\* Whether arctan2(dy, dx) is one of the values every implementation gives
\* to the nearest double: the multiples of pi / 4.
Principal(dy, dx) == dy = 0 \/ dx = 0 \/ Abs(dy) = Abs(dx)

\* The doubles a library function accurate to one unit in the last place
\* can give for the fixed point value a: the nearest double when every
\* implementation rounds to nearest, and else the two doubles a lies
\* between.
Bracket(a, nearest) ==
    IF a = <<>> THEN {DblZero}
    ELSE IF nearest THEN {RoundToDbl(a, -FracBits, TRUE)}
    ELSE {RoundToDbl(SubSeq(a, 1, SigBits), Len(a) - SigBits - FracBits, FALSE),
          DblUp(RoundToDbl(SubSeq(a, 1, SigBits),
                           Len(a) - SigBits - FracBits, FALSE))}

\* The doubles np.arctan2(dy, dx) can be, as magnitudes: the nearest double
\* for a multiple of pi / 4, and else the two doubles the angle lies
\* between, the library function being accurate to one unit in the last
\* place and not always rounded to nearest.
ArcTan2Mags(dy, dx) == Bracket(ArcTan2Fixed(dy, dx), Principal(dy, dx))

----------------------------------------------------------------------------
\* Configuration the model runs on

Edge(s, sc, d, dc, df, c, dist, t) ==
    [src_id |-> s, src_coord |-> sc, dst_id |-> d, dst_coord |-> dc,
     difficulty |-> df, code |-> c, distance |-> dist, time |-> t]

\* key_points.csv: 1 (0,0) <-> 2 (100,0), both 100 cm, 10 s and 8 s.
KeyPointsCsv ==
    << Edge(1, <<0, 0>>, 2, <<100, 0>>, 200, 0, 1000, 10),
       Edge(2, <<100, 0>>, 1, <<0, 0>>, 300, 0, 1000, 8) >>

\* routines.yaml: routine 1 resolves on its three hops, routine 2 has no
\* edge for its second hop, routine 3 has no edge for its first hop,
\* routine 4 resolves on its one hop.
RoutinesYaml ==
    (1 :> << <<1, 0>>, <<2, 0>>, <<1, 0>>, <<2, 0>> >>) @@
    (2 :> << <<1, 0>>, <<2, 0>>, <<3, 0>> >>) @@
    (3 :> << <<3, 0>>, <<1, 0>> >>) @@
    (4 :> << <<1, 0>>, <<2, 0>> >>)

\* Routine ids a start message may carry; 9 is not configured.
RoutineIds == {1, 2, 3, 4, 9}

\* The ids but that of the routine of three hops.
ShortIds == RoutineIds \ {1}

\* Yaw values the status feed delivers.
YawSet == {SInt(0), SInt(-90)}

EmptyWayPoints == [coords |-> <<>>, times |-> <<>>, distances |-> <<>>]

----------------------------------------------------------------------------
\* read_keypoints

\* round(self.map_distance, 2): the double of the rounded decimal.
Round2(x) == Dbl(PyRound2(x), 100)

\* The doubles of the difficulties ds (in hundredths, as the csv gives them)
\* added up from the first on.
RECURSIVE DblSum(_)
DblSum(ds) ==
    IF ds = <<>> THEN DblZero
    ELSE DblAdd(DblSum(SubSeq(ds, 1, Len(ds) - 1)), Dbl(ds[Len(ds)], 100))

\* round(np.mean(map_difficulty), 2) of the local list of difficulties.
MeanDifficulty(diffs) ==
    Dbl(NpRound2(DblDivInt(DblSum(diffs), Len(diffs))), 100)

\* match_src[0]["distance"] / 100 for a distance of the csv, which the model
\* holds in tenths of the csv's unit.
Metres(distance) == DblDivInt(Dbl(distance, 10), 100)

\* The list comprehension match_src for the hop key_Points[i] -> key_Points[i+1].
MatchSrc(mp, key_Points, i) ==
    LET Hit(e) == /\ e.src_id = key_Points[i][1]
                  /\ e.dst_id = key_Points[i + 1][1]
                  /\ e.code = key_Points[i][2]
    IN  SelectSeq(mp, Hit)

\* TakeHop with the way point taken from the first matching edge.
TakeHop_first_match(wp, match_src) ==
    [coords |-> (IF Len(wp.coords) = 0 THEN <<match_src[1].src_coord>>
                 ELSE wp.coords) \o <<match_src[1].dst_coord>>,
     times |-> Append(wp.times, match_src[1].time),
     distances |-> Append(wp.distances, match_src[1].distance)]

\* The local way_points after the appends of a matched hop: the source
\* coordinate on the first one, then destination coordinate, time and
\* distance of match_src[-1].
TakeHop(wp, match_src) ==
    [coords |-> (IF Len(wp.coords) = 0 THEN <<Last(match_src).src_coord>>
                 ELSE wp.coords) \o <<Last(match_src).dst_coord>>,
     times |-> Append(wp.times, Last(match_src).time),
     distances |-> Append(wp.distances, Last(match_src).distance)]

\* The locals of read_keypoints: way_points, map_difficulty (in hundredths),
\* the number of csv rows read, the hop of the "Generate map" loop (from 1),
\* match_src and held, the value a statement has computed from an attribute
\* it read and has not stored yet; and dy and dx of the heading computation.
NoFrame ==
    [way_points |-> EmptyWayPoints, difficulty |-> <<>>, row |-> 0, hop |-> 0,
     match_src |-> <<>>, held |-> 0, dy |-> 0, dx |-> 0]

----------------------------------------------------------------------------
\* Heading computation of the segment loop

SgnZero == Sgn(FALSE, DblZero)

Sgn180 == SInt(180)

Sgn360 == SInt(360)

\* The signed doubles np.rad2deg(np.arctan2(dy, dx)) can be: each value of
\* the arc tangent times 180.0 / pi.
RadToDegOfArcTan2(dy, dx) ==
    {Sgn(dy < 0, DblMul(m, RadToDeg)) : m \in ArcTan2Mags(dy, dx)}

\* np.rad2deg(np.arctan2(dy, dx)): the values ang can have.  For dy = dx = 0
\* and along an axis or a diagonal RadToDegOfArcTan2 is the one double of a
\* whole number of degrees, written out here.
ArcTan2Deg(dy, dx) ==
    IF dy = 0 THEN {SInt(IF dx >= 0 THEN 0 ELSE 180)}
    ELSE IF dx = 0 THEN {SInt(IF dy > 0 THEN 90 ELSE -90)}
    ELSE IF Abs(dy) = Abs(dx)
    THEN {SInt((IF dy > 0 THEN 1 ELSE -1) * (IF dx > 0 THEN 45 ELSE 135))}
    ELSE RadToDegOfArcTan2(dy, dx)

\* The if / elif chain that follows dang = ang - yaw.
NormalizeDang(d) ==
    IF DblLess(Sgn180.mag, d.mag) THEN SgnAdd(d, Sgn360)
    ELSE IF SgnLess(Sgn360, d) THEN SgnSub(d, Sgn360)
    ELSE IF SgnLess(Sgn180, d) THEN SgnSub(d, Sgn360)
    ELSE IF SgnLess(d, SgnNeg(Sgn180)) THEN SgnAdd(d, Sgn360)
    ELSE d

\* The values dang can have for a segment of direction dy, dx under yaw y.
SegmentDang(dy, dx, y) ==
    {NormalizeDang(SgnSub(ang, y)) : ang \in ArcTan2Deg(dy, dx)}

----------------------------------------------------------------------------
\* get_profile_route and get_profile_turn
\*
\* Both methods are computed as the code computes them, on doubles, every
\* operation rounded once.  Of a call, time is a whole number of seconds
\* (the float time), pt is a pair <<a, b>> for the float of the decimal
\* a / b, the coordinates are integers, and dst of get_profile_turn is in
\* tenths of a degree, for the Python float of the decimal dst / 10.  The
\* positions of the samples returned are integers and their angles are in
\* tenths of a degree; t and dt are doubles.

\* Quotient bits generated by a division of doubles before rounding.
QuotBits == 56

\* One step of the long division of significands by d, a bit at a time:
\* st.cur is twice the remainder so far (below twice d) and st.q holds the
\* quotient bits so far; diff is st.cur - d, a bit longer than d when
\* st.cur < d.
DivBit(diff, st, d) ==
    IF Len(diff) > Len(d)
    THEN [cur |-> Tail(st.cur) \o <<0>>, q |-> st.q \o <<0>>]
    ELSE [cur |-> Tail(diff) \o <<0>>, q |-> st.q \o <<1>>]

\* j steps of the division.
RECURSIVE DivSteps(_, _, _)
DivSteps(st, d, j) ==
    IF j = 0 \/ Len(st.q) < 0 THEN st
    ELSE DivSteps(DivBit(Ripple(st.cur, d, -1, Len(d) \div Group, 0, <<>>),
                         st, d),
                  d, j - 1)

\* g groups of Group steps of the division.
RECURSIVE DivLong(_, _, _)
DivLong(st, d, g) ==
    IF g = 0 \/ Len(st.q) < 0 THEN st
    ELSE DivLong(DivSteps(st, d, Group), d, g - 1)

\* The double of the quotient bits of st at last exponent e; a remainder
\* left is a positive amount below the last bit.
DivRound(st, e) == RoundToDbl(st.q, e, AnyOne(st.cur))

\* x / y for y not zero
DblDiv(x, y) ==
    IF x = DblZero THEN DblZero
    ELSE DivRound(DivLong([cur |-> Padded(x.b), q |-> <<>>], Padded(y.b),
                          QuotBits \div Group),
                  x.e - y.e - (QuotBits - 1))

\* x * y
SgnMul(x, y) == Sgn(x.neg # y.neg, DblMul(x.mag, y.mag))

\* x / y for y not zero
SgnDiv(x, y) == Sgn(x.neg # y.neg, DblDiv(x.mag, y.mag))

\* The float of the decimal p / q.
SDbl(p, q) == Sgn(p < 0, Dbl(Abs(p), q))

\* int(round(x)) of a float: the nearest integer, ties to even.
SgnRound(x) ==
    IF x.mag = DblZero THEN 0
    ELSE (IF x.neg THEN -1 ELSE 1) * NearestInt(x.mag.b, x.mag.e)

\* round(x, 1) of a Python float, in tenths: the decimal with one place
\* nearest the exact value of x, ties to even.
PyRound1(x) ==
    IF x.mag = DblZero THEN 0
    ELSE (IF x.neg THEN -1 ELSE 1) * NearestInt(MulBits(x.mag.b, 10), x.mag.e)

\* TimeDisc with the series started at 0: each entry is prev, not prev + dt.
RECURSIVE TimeDisc_from_zero(_, _, _, _)
TimeDisc_from_zero(i, cnt, prev, dt) ==
    IF i >= cnt THEN <<>>
    ELSE <<prev>> \o TimeDisc_from_zero(i + 1, cnt, DblAdd(prev, dt), dt)

\* t_disc: prev starts at 0.0, each of the n entries is the double prev + dt
\* and prev += dt follows it.
RECURSIVE TimeDisc(_, _, _, _)
TimeDisc(i, cnt, prev, dt) ==
    IF i >= cnt THEN <<>>
    ELSE <<DblAdd(prev, dt)>> \o TimeDisc(i + 1, cnt, DblAdd(prev, dt), dt)

\* time * pt, the end of the acceleration (pt * time is the same double).
AccelEnd(time, pt) == SgnMul(SInt(time), SDbl(pt[1], pt[2]))

\* time * (1 - pt), the end of the constant speed.
CruiseEnd(time, pt) ==
    SgnMul(SInt(time), SgnSub(SInt(1), SDbl(pt[1], pt[2])))

\* The methods raise ZeroDivisionError: at time / n, at the division by
\* time * (1.0 - pt), or at the division by pt * time of an acceleration or
\* deceleration sample (index > 0).
ProfileRaises(time, pt, cnt) ==
    \/ cnt = 0
    \/ CruiseEnd(time, pt) = SgnZero
    \/ /\ AccelEnd(time, pt) = SgnZero
       /\ \E k \in 2..cnt :
             \/ ~SgnLess(AccelEnd(time, pt),
                         Sgn(FALSE, TimeDisc(0, cnt, DblZero, Dbl(time, cnt))[k]))
             \/ SgnLess(CruiseEnd(time, pt),
                        Sgn(FALSE, TimeDisc(0, cnt, DblZero, Dbl(time, cnt))[k]))

\* pos[index] of a sample of velocity v after one of velocity and position
\* prev: pos[index - 1] + 1/2 * dt * (vel[index] + vel[index - 1]), with
\* hdt = 1/2 * dt.
Trapezoid(v, prev, hdt) ==
    [v |-> v, s |-> SgnAdd(prev.s, SgnMul(hdt, SgnAdd(v, prev.v)))]

\* ProfileStep with the velocity of a deceleration sample negated.
ProfileStep_decel_sign(t_val, prev, v_max, dt, hdt, tp, tq) ==
    IF ~SgnLess(tp, t_val)
    THEN Trapezoid(SgnDiv(SgnMul(v_max, t_val), tp), prev, hdt)
    ELSE IF SgnLess(tp, t_val) /\ ~SgnLess(tq, t_val)
    THEN [v |-> v_max, s |-> SgnAdd(prev.s, SgnMul(dt, v_max))]
    ELSE Trapezoid(SgnNeg(SgnSub(v_max,
                                 SgnDiv(SgnMul(v_max, SgnSub(t_val, tq)), tp))),
                   prev, hdt)

\* Velocity and position of the sample at time t_val (index > 0) after the
\* sample prev, with hdt = 1/2 * dt, tp = time * pt and
\* tq = time * (1 - pt).
ProfileStep(t_val, prev, v_max, dt, hdt, tp, tq) ==
    IF ~SgnLess(tp, t_val)
    THEN \* acceleration
         Trapezoid(SgnDiv(SgnMul(v_max, t_val), tp), prev, hdt)
    ELSE IF SgnLess(tp, t_val) /\ ~SgnLess(tq, t_val)
    THEN \* constant speed
         [v |-> v_max, s |-> SgnAdd(prev.s, SgnMul(dt, v_max))]
    ELSE \* deceleration
         Trapezoid(SgnSub(v_max, SgnDiv(SgnMul(v_max, SgnSub(t_val, tq)), tp)),
                   prev, hdt)

\* The velocity / position loop over t_disc from entry i (1-based) on; prev
\* is the sample before it and acc holds the positions so far.
RECURSIVE Integrate(_, _, _, _, _, _, _, _, _)
RECURSIVE IntegrateOn(_, _, _, _, _, _, _, _, _)
IntegrateOn(cur, t_disc, i, acc, v_max, dt, hdt, tp, tq) ==
    Integrate(t_disc, i + 1, cur, acc \o <<cur.s>>, v_max, dt, hdt, tp, tq)

Integrate(t_disc, i, prev, acc, v_max, dt, hdt, tp, tq) ==
    IF i > Len(t_disc) \/ Len(acc) < 0 THEN acc
    ELSE IntegrateOn(ProfileStep(Sgn(FALSE, t_disc[i]), prev, v_max, dt, hdt,
                                 tp, tq),
                     t_disc, i, acc, v_max, dt, hdt, tp, tq)

\* The positions of the n samples that start at from (index 0 keeps
\* velocity 0.0 and position from) for the displacement d, with
\* v_max = d / (time * (1.0 - pt)).
Positions(from, d, time, pt, cnt) ==
    Integrate(TimeDisc(0, cnt, DblZero, Dbl(time, cnt)), 2,
              [v |-> SgnZero, s |-> from], <<from>>,
              SgnDiv(d, CruiseEnd(time, pt)), Sgn(FALSE, Dbl(time, cnt)),
              SgnMul(SDbl(1, 2), Sgn(FALSE, Dbl(time, cnt))),
              AccelEnd(time, pt), CruiseEnd(time, pt))

RouteSamples(t_disc, pos_x, pos_y, dt) ==
    [k \in 1..Len(t_disc) |->
        [idx |-> k - 1,
         pt |-> <<SgnRound(pos_x[k]), SgnRound(pos_y[k])>>,
         t |-> t_disc[k],
         dt |-> dt]]

get_profile_route(src, dst, time, pt, cnt) ==
    IF ProfileRaises(time, pt, cnt)
    THEN [raised |-> TRUE, samples |-> <<>>]
    ELSE [raised |-> FALSE,
          samples |->
             RouteSamples(TimeDisc(0, cnt, DblZero, Dbl(time, cnt)),
                          Positions(SInt(src[1]), SInt(dst[1] - src[1]),
                                    time, pt, cnt),
                          Positions(SInt(src[2]), SInt(dst[2] - src[2]),
                                    time, pt, cnt),
                          Dbl(time, cnt))]

TurnSamples(t_disc, th_a, dt) ==
    [k \in 1..Len(t_disc) |->
        [idx |-> k - 1, a |-> PyRound1(th_a[k]), t |-> t_disc[k], dt |-> dt]]

\* get_profile_turn with the test of dst placed after the computation of dt
\* and w_max.
get_profile_turn_late_test(dst, time, pt, cnt) ==
    IF ProfileRaises(time, pt, cnt)
    THEN [raised |-> TRUE, samples |-> <<>>]
    ELSE IF dst = 0 THEN [raised |-> FALSE, samples |-> <<>>]
    ELSE [raised |-> FALSE,
          samples |->
             TurnSamples(TimeDisc(0, cnt, DblZero, Dbl(time, cnt)),
                         Positions(SgnZero, SDbl(dst, 10), time, pt, cnt),
                         Dbl(time, cnt))]

get_profile_turn(dst, time, pt, cnt) ==
    IF dst = 0 THEN [raised |-> FALSE, samples |-> <<>>]
    ELSE IF ProfileRaises(time, pt, cnt)
    THEN [raised |-> TRUE, samples |-> <<>>]
    ELSE [raised |-> FALSE,
          samples |->
             TurnSamples(TimeDisc(0, cnt, DblZero, Dbl(time, cnt)),
                         Positions(SgnZero, SDbl(dst, 10), time, pt, cnt),
                         Dbl(time, cnt))]

----------------------------------------------------------------------------
\* State after PlannerNode.__init__

\* No direct call of a profile method is under way.
NoCall ==
    [fn |-> "none", src |-> <<0, 0>>, dst |-> <<0, 0>>, ang |-> 0, time |-> 0,
     pt |-> <<3, 10>>, n |-> 0, done |-> FALSE,
     ret |-> [raised |-> FALSE, samples |-> <<>>]]

NodeInit ==
    /\ in_execution = FALSE
    /\ is_paused = FALSE
    /\ yaw = SgnZero
    /\ yaml_exists \in BOOLEAN
    /\ routines = RoutinesYaml
    /\ csv_exists \in BOOLEAN
    /\ csv = KeyPointsCsv
    /\ map_points = <<>>
    /\ map_duration = 0
    /\ map_distance = DblZero
    /\ map_difficulty = DblZero
    /\ way_points = EmptyWayPoints
    /\ pc = [t \in Threads |-> "idle"]
    /\ rid = [t \in Threads |-> 0]
    /\ idx = [t \in Threads |-> 0]
    /\ n = [t \in Threads |-> 0]
    /\ dang = [t \in Threads |-> SgnZero]
    /\ resolved = [t \in Threads |-> "none"]
    /\ out = [t \in Threads |-> <<>>]
    /\ starts = 0
    /\ rk = [t \in Threads |-> NoFrame]

Init == NodeInit /\ call = NoCall

----------------------------------------------------------------------------
\* Frame and step helpers

Goto(t, l) == pc' = [pc EXCEPT ![t] = l]

Emit(t, evs) == out' = [out EXCEPT ![t] = out[t] \o evs]

\* The except clause of cb_start_routine: log the fault, then fall to the
\* statement after the try.
Raise(t, why) == Goto(t, "reset") /\ Emit(t, <<Ev(why, 0)>>)

----------------------------------------------------------------------------
\* cb_kiwibot_status and cb_planner_pause

cb_kiwibot_status(y) ==
    /\ yaw # y
    /\ yaw' = y
    /\ UNCHANGED <<in_execution, is_paused, map_points, map_duration,
                   map_distance, map_difficulty, way_points, env, rk, pc, rid,
                   idx, n, dang, resolved, out, starts, call>>

\* paused_after with the flag flipped instead of set.
paused_after_toggle(flag) == ~flag

\* The value cb_planner_pause leaves in self.is_paused when it finds flag
\* there: both branches of its if assign True.
paused_after(flag) == IF flag THEN TRUE ELSE TRUE

cb_planner_pause ==
    /\ is_paused' = paused_after(is_paused)
    /\ UNCHANGED <<in_execution, yaw, map_points, map_duration, map_distance,
                   map_difficulty, way_points, env, rk, pc, rid, idx, n, dang,
                   resolved, out, starts>>

----------------------------------------------------------------------------
\* cb_start_routine, statement by statement

\* The executor hands a start message to a free worker thread.
StartMsg(t, id) ==
    /\ pc[t] = "idle"
    /\ starts < MaxStarts
    /\ starts' = starts + 1
    /\ rid' = [rid EXCEPT ![t] = id]
    /\ idx' = [idx EXCEPT ![t] = 0]
    /\ n' = [n EXCEPT ![t] = 0]
    /\ dang' = [dang EXCEPT ![t] = SgnZero]
    /\ resolved' = [resolved EXCEPT ![t] = "none"]
    /\ out' = [out EXCEPT ![t] = <<>>]
    /\ Goto(t, "gate")
    /\ UNCHANGED <<shared, env, rk>>

\* Gate with the return of the busy branch lost: the rejected request falls
\* through to the statement after the try.
Gate_fallthrough(t) ==
    /\ pc[t] = "gate"
    /\ IF in_execution
       THEN Goto(t, "reset") /\ Emit(t, <<Ev("busy", 0)>>)
       ELSE Goto(t, "set") /\ UNCHANGED out
    /\ UNCHANGED <<shared, env, rk, rid, idx, n, dang, resolved, starts>>

\* if self._in_execution: printlog(...); return
Gate(t) ==
    /\ pc[t] = "gate"
    /\ IF in_execution
       THEN Goto(t, "idle") /\ Emit(t, <<Ev("busy", 0)>>)
       ELSE Goto(t, "set") /\ UNCHANGED out
    /\ UNCHANGED <<shared, env, rk, rid, idx, n, dang, resolved, starts>>

\* self._in_execution = True
SetExec(t) ==
    /\ pc[t] = "set"
    /\ in_execution' = TRUE
    /\ Goto(t, "lookup")
    /\ UNCHANGED <<is_paused, yaw, map_points, map_duration, map_distance,
                   map_difficulty, way_points, env, rk, rid, idx, n, dang,
                   resolved, out, starts>>

\* Lookup with the unknown id sent on to the end-of-run statements instead
\* of returning.
Lookup_unknown_finishes(t) ==
    /\ pc[t] = "lookup"
    /\ IF ~yaml_exists THEN Raise(t, "error_attribute")
       ELSE IF rid[t] \in DOMAIN routines
       THEN Goto(t, "resolve") /\ UNCHANGED out
       ELSE Goto(t, "after") /\ Emit(t, <<Ev("no_routine", 0)>>)
    /\ UNCHANGED <<shared, env, rk, rid, idx, n, dang, resolved, starts>>

\* if msg.data in self.routines.keys(): ... else: printlog(...); return
\* Without routines.yaml self.routines is the list [], which has no keys().
Lookup(t) ==
    /\ pc[t] = "lookup"
    /\ IF ~yaml_exists THEN Raise(t, "error_attribute")
       ELSE IF rid[t] \in DOMAIN routines
       THEN Goto(t, "resolve") /\ UNCHANGED out
       ELSE Goto(t, "idle") /\ Emit(t, <<Ev("no_routine", 0)>>)
    /\ UNCHANGED <<shared, env, rk, rid, idx, n, dang, resolved, starts>>

\* Whether read_keypoints matched every hop of key_Points.
Complete(wp, key_Points) == Len(wp.times) = Len(key_Points) - 1

\* The position after hop h - 1 of the "Generate map" loop: its next
\* iteration, or the statements after the loop.
HopPc(key_Points, h) ==
    IF h > Len(key_Points) - 1 THEN "rk_mean" ELSE "rk_match"

Frame(t, f) == rk' = [rk EXCEPT ![t] = f]

\* The call self.read_keypoints(...): the locals are set up and the csv file
\* is looked for; without it the empty way_points is returned.
ReadKeypoints(t) ==
    /\ pc[t] = "resolve"
    /\ Frame(t, [NoFrame EXCEPT !.hop = 1])
    /\ Goto(t, IF ~csv_exists THEN "assign"
               ELSE IF Len(csv) = 0 THEN HopPc(routines[rid[t]], 1)
               ELSE "rk_rows")
    /\ UNCHANGED <<shared, env, rid, idx, n, dang, resolved, out, starts>>

\* self.map_points.append({...}) for the next row of the csv.
RkRow(t) ==
    /\ pc[t] = "rk_rows"
    /\ map_points' = Append(map_points, csv[rk[t].row + 1])
    /\ Frame(t, [rk[t] EXCEPT !.row = @ + 1])
    /\ Goto(t, IF rk[t].row + 1 = Len(csv) THEN HopPc(routines[rid[t]], 1)
               ELSE "rk_rows")
    /\ UNCHANGED <<in_execution, is_paused, yaw, map_duration, map_distance,
                   map_difficulty, way_points, env, rid, idx, n, dang,
                   resolved, out, starts>>

\* match_src = [...] for the hop; without a match the error is printed and
\* the loop left.
RkMatch(t) ==
    /\ pc[t] = "rk_match"
    /\ LET m == MatchSrc(map_points, routines[rid[t]], rk[t].hop) IN
       /\ Frame(t, [rk[t] EXCEPT !.match_src = m])
       /\ Goto(t, IF Len(m) > 0 THEN "rk_duration" ELSE "rk_mean")
    /\ UNCHANGED <<shared, env, rid, idx, n, dang, resolved, out, starts>>

\* self.map_duration += match_src[0]["time"]: the attribute is read and
\* the sum is made.
RkDurationLoad(t) ==
    /\ pc[t] = "rk_duration"
    /\ Frame(t, [rk[t] EXCEPT
                   !.held = map_duration + rk[t].match_src[1].time])
    /\ Goto(t, "rk_duration_st")
    /\ UNCHANGED <<shared, env, rid, idx, n, dang, resolved, out, starts>>

\* ... and the sum is stored.
RkDurationStore(t) ==
    /\ pc[t] = "rk_duration_st"
    /\ map_duration' = rk[t].held
    /\ Frame(t, [rk[t] EXCEPT !.held = 0])
    /\ Goto(t, "rk_distance")
    /\ UNCHANGED <<in_execution, is_paused, yaw, map_points, map_distance,
                   map_difficulty, way_points, env, rid, idx, n, dang,
                   resolved, out, starts>>

\* self.map_distance += match_src[0]["distance"] / 100: the attribute is
\* read and the sum is made.
RkDistanceLoad(t) ==
    /\ pc[t] = "rk_distance"
    /\ Frame(t, [rk[t] EXCEPT
                   !.held = DblAdd(map_distance,
                                   Metres(rk[t].match_src[1].distance))])
    /\ Goto(t, "rk_distance_st")
    /\ UNCHANGED <<shared, env, rid, idx, n, dang, resolved, out, starts>>

\* ... and the sum is stored; the appends to the local map_difficulty and
\* way_points follow.
RkDistanceStore(t) ==
    /\ pc[t] = "rk_distance_st"
    /\ map_distance' = rk[t].held
    /\ Frame(t, [rk[t] EXCEPT
                   !.difficulty = Append(@, rk[t].match_src[1].difficulty),
                   !.way_points = TakeHop(@, rk[t].match_src),
                   !.match_src = <<>>,
                   !.held = 0,
                   !.hop = @ + 1])
    /\ Goto(t, HopPc(routines[rid[t]], rk[t].hop + 1))
    /\ UNCHANGED <<in_execution, is_paused, yaw, map_points, map_duration,
                   map_difficulty, way_points, env, rid, idx, n, dang,
                   resolved, out, starts>>

\* self.map_difficulty = round(np.mean(map_difficulty) if ... else None, 2);
\* round(None, 2) raises TypeError.
RkMean(t) ==
    /\ pc[t] = "rk_mean"
    /\ IF rk[t].difficulty = <<>>
       THEN /\ resolved' = [resolved EXCEPT ![t] = "failed"]
            /\ Frame(t, NoFrame)
            /\ Raise(t, "error_resolve")
            /\ UNCHANGED map_difficulty
       ELSE /\ map_difficulty' = MeanDifficulty(rk[t].difficulty)
            /\ Goto(t, "rk_round")
            /\ UNCHANGED <<resolved, rk, out>>
    /\ UNCHANGED <<in_execution, is_paused, yaw, map_points, map_duration,
                   map_distance, way_points, env, rid, idx, n, dang, starts>>

\* self.map_distance = round(self.map_distance, 2): the attribute is read
\* and round is called.
RkRoundCall(t) ==
    /\ pc[t] = "rk_round"
    /\ Frame(t, [rk[t] EXCEPT !.held = Round2(map_distance)])
    /\ Goto(t, "rk_round_st")
    /\ UNCHANGED <<shared, env, rid, idx, n, dang, resolved, out, starts>>

\* ... and the value round returned is stored.
RkRoundStore(t) ==
    /\ pc[t] = "rk_round_st"
    /\ map_distance' = rk[t].held
    /\ Frame(t, [rk[t] EXCEPT !.held = 0])
    /\ Goto(t, "assign")
    /\ UNCHANGED <<in_execution, is_paused, yaw, map_points, map_duration,
                   map_difficulty, way_points, env, rid, idx, n, dang,
                   resolved, out, starts>>

\* return way_points and the assignment self.way_points = ...
Assign(t) ==
    /\ pc[t] = "assign"
    /\ way_points' = rk[t].way_points
    /\ resolved' = [resolved EXCEPT ![t] =
                      IF Complete(rk[t].way_points, routines[rid[t]])
                      THEN "ok" ELSE "failed"]
    /\ Frame(t, NoFrame)
    /\ Goto(t, "publish")
    /\ UNCHANGED <<in_execution, is_paused, yaw, map_points, map_duration,
                   map_distance, map_difficulty, env, rid, idx, n, dang, out,
                   starts>>

\* self.way_points = self.read_keypoints(...), statement by statement
Resolve(t) ==
    \/ ReadKeypoints(t)
    \/ RkRow(t)
    \/ RkMatch(t)
    \/ RkDurationLoad(t)
    \/ RkDurationStore(t)
    \/ RkDistanceLoad(t)
    \/ RkDistanceStore(t)
    \/ RkMean(t)
    \/ RkRoundCall(t)
    \/ RkRoundStore(t)
    \/ Assign(t)

\* self.pub_path_planner.publish(...); self.pub_recording.publish(Bool(True))
Publish(t) ==
    /\ pc[t] = "publish"
    /\ Emit(t, <<Ev("waypoints", Len(way_points.coords)), Ev("record", 1)>>)
    /\ Goto(t, "origin")
    /\ UNCHANGED <<shared, env, rk, rid, idx, n, dang, resolved, starts>>

\* Origin without the direct placement on coords[0]: the loop is entered at
\* once.
Origin_no_placement(t) ==
    /\ pc[t] = "origin"
    /\ IF Len(way_points.coords) = 0
       THEN Raise(t, "error_index")
       ELSE Goto(t, "origin_call") /\ UNCHANGED out
    /\ UNCHANGED <<shared, env, rk, rid, idx, n, dang, resolved, starts>>

\* Build the one-waypoint request for coords[0] and issue the move call.
Origin(t) ==
    /\ pc[t] = "origin"
    /\ IF Len(way_points.coords) = 0
       THEN Raise(t, "error_index")
       ELSE Goto(t, "origin_call") /\ Emit(t, <<Ev("move", -1)>>)
    /\ UNCHANGED <<shared, env, rk, rid, idx, n, dang, resolved, starts>>

\* self.cli_robot_move.call(...) returns or raises.
OriginRet(t, ok) ==
    /\ pc[t] = "origin_call"
    /\ IF ok THEN Goto(t, "loop") /\ UNCHANGED out
             ELSE Raise(t, "error_dispatch")
    /\ UNCHANGED <<shared, env, rk, rid, idx, n, dang, resolved, starts>>

\* self.pub_speaker.publish(Int8(2)); the for statement slices coords[:-1].
EnterLoop(t) ==
    /\ pc[t] = "loop"
    /\ Emit(t, <<Ev("speaker", 2)>>)
    /\ n' = [n EXCEPT ![t] = IF Len(way_points.coords) = 0 THEN 0
                              ELSE Len(way_points.coords) - 1]
    /\ idx' = [idx EXCEPT ![t] = 0]
    /\ Goto(t, "check")
    /\ UNCHANGED <<shared, env, rk, rid, dang, resolved, starts>>

\* Next iteration of the for loop and its test of self.is_paused.
Check(t) ==
    /\ pc[t] = "check"
    /\ IF idx[t] >= n[t] THEN Goto(t, "after")
       ELSE IF is_paused THEN Goto(t, "abort")
       ELSE Goto(t, "heading")
    /\ UNCHANGED <<shared, env, rk, rid, idx, n, dang, resolved, out, starts, call>>

\* self._in_execution = False
Abort(t) ==
    /\ pc[t] = "abort"
    /\ in_execution' = FALSE
    /\ Goto(t, "unpause")
    /\ UNCHANGED <<is_paused, yaw, map_points, map_duration, map_distance,
                   map_difficulty, way_points, env, rk, rid, idx, n, dang,
                   resolved, out, starts>>

\* self.is_paused = False; break
Unpause(t) ==
    /\ pc[t] = "unpause"
    /\ is_paused' = FALSE
    /\ Goto(t, "after")
    /\ UNCHANGED <<in_execution, yaw, map_points, map_duration, map_distance,
                   map_difficulty, way_points, env, rk, rid, idx, n, dang,
                   resolved, out, starts>>

\* One read of self.way_points["coords"][i][c] in the statements dy = ...
\* and dx = ... (i from 0; c is 1 for x, 2 for y): the IndexError of a list
\* that is too short, or the value read becomes the local fld (the first
\* operand of the subtraction) or is taken from it (the second), and on to
\* the position next.
CoordRead(t, from, i, c, fld, first, next) ==
    /\ pc[t] = from
    /\ IF i + 1 > Len(way_points.coords)
       THEN Raise(t, "error_index") /\ Frame(t, NoFrame)
       ELSE LET v == way_points.coords[i + 1][c] IN
            /\ Frame(t, [rk[t] EXCEPT ![fld] = IF first THEN v ELSE @ - v])
            /\ Goto(t, next)
            /\ UNCHANGED out
    /\ UNCHANGED <<shared, env, rid, idx, n, dang, resolved, starts>>

\* dy = coords[idx][1] - coords[idx + 1][1]
HeadingDy(t) ==
    \/ CoordRead(t, "heading", idx[t], 2, "dy", TRUE, "heading_y1")
    \/ CoordRead(t, "heading_y1", idx[t] + 1, 2, "dy", FALSE, "heading_x1")

\* dx = coords[idx + 1][0] - coords[idx][0]
HeadingDx(t) ==
    \/ CoordRead(t, "heading_x1", idx[t] + 1, 1, "dx", TRUE, "heading_x0")
    \/ CoordRead(t, "heading_x0", idx[t], 1, "dx", FALSE, "heading_yaw")

\* ang, dang = ang - self.kiwibot_state.yaw, the wraparound branches and
\* the test int(dang).
HeadingYaw(t) ==
    /\ pc[t] = "heading_yaw"
    /\ \E d \in SegmentDang(rk[t].dy, rk[t].dx, yaw) :
          /\ dang' = [dang EXCEPT ![t] = d]
          /\ Goto(t, IF SgnInt(d) # 0 THEN "turn" ELSE "move")
    /\ Frame(t, NoFrame)
    /\ UNCHANGED <<shared, env, rid, idx, n, resolved, out, starts>>

\* dy, dx, ang, dang and the wraparound branches, read by read.
Heading(t) ==
    \/ HeadingDy(t)
    \/ HeadingDx(t)
    \/ HeadingYaw(t)

\* Build the turn profile and issue the turn call.
Turn(t) ==
    /\ pc[t] = "turn"
    /\ Emit(t, <<Ev("turn", idx[t])>>)
    /\ Goto(t, "turn_call")
    /\ UNCHANGED <<shared, env, rk, rid, idx, n, dang, resolved, starts>>

\* self.cli_robot_turn.call(...) returns or raises.
TurnRet(t, ok) ==
    /\ pc[t] = "turn_call"
    /\ IF ok THEN Goto(t, "move") /\ UNCHANGED out
             ELSE Raise(t, "error_dispatch")
    /\ UNCHANGED <<shared, env, rk, rid, idx, n, dang, resolved, starts>>

\* Build the segment's move profile and issue the move call.
Move(t) ==
    /\ pc[t] = "move"
    /\ IF idx[t] + 2 > Len(way_points.coords)
          \/ idx[t] + 1 > Len(way_points.times)
       THEN Raise(t, "error_index")
       ELSE Goto(t, "move_call") /\ Emit(t, <<Ev("move", idx[t])>>)
    /\ UNCHANGED <<shared, env, rk, rid, idx, n, dang, resolved, starts>>

\* MoveRet with the fault of the call caught inside the loop body, so that
\* the loop goes on with the next segment.
MoveRet_swallow(t, ok) ==
    /\ pc[t] = "move_call"
    /\ idx' = [idx EXCEPT ![t] = idx[t] + 1]
    /\ Goto(t, "check")
    /\ IF ok THEN UNCHANGED out ELSE Emit(t, <<Ev("error_dispatch", 0)>>)
    /\ UNCHANGED <<shared, env, rk, rid, n, dang, resolved, starts>>

\* self.cli_robot_move.call(...) returns or raises.
MoveRet(t, ok) ==
    /\ pc[t] = "move_call"
    /\ IF ok
       THEN /\ idx' = [idx EXCEPT ![t] = idx[t] + 1]
            /\ Goto(t, "check")
            /\ UNCHANGED out
       ELSE Raise(t, "error_dispatch") /\ UNCHANGED idx
    /\ UNCHANGED <<shared, env, rk, rid, n, dang, resolved, starts>>

\* The "stopped" / "finished" log, the end sound and the recording stop.
After(t) ==
    /\ pc[t] = "after"
    /\ Emit(t, << Ev(IF ~in_execution THEN "stopped" ELSE "finished", 0),
                  Ev("speaker", 3), Ev("record", 0) >>)
    /\ Goto(t, "reset")
    /\ UNCHANGED <<shared, env, rk, rid, idx, n, dang, resolved, starts>>

\* self._in_execution = False, the last statement of the callback.
Reset(t) ==
    /\ pc[t] = "reset"
    /\ in_execution' = FALSE
    /\ Goto(t, "idle")
    /\ UNCHANGED <<is_paused, yaw, map_points, map_duration, map_distance,
                   map_difficulty, way_points, env, rk, rid, idx, n, dang,
                   resolved, out, starts>>

cb_start_routine(t) ==
    \/ Gate(t)
    \/ SetExec(t)
    \/ Lookup(t)
    \/ Resolve(t)
    \/ Publish(t)
    \/ Origin(t)
    \/ \E ok \in BOOLEAN : OriginRet(t, ok)
    \/ EnterLoop(t)
    \/ Check(t)
    \/ Abort(t)
    \/ Unpause(t)
    \/ Heading(t)
    \/ Turn(t)
    \/ \E ok \in BOOLEAN : TurnRet(t, ok)
    \/ Move(t)
    \/ \E ok \in BOOLEAN : MoveRet(t, ok)
    \/ After(t)
    \/ Reset(t)

Next ==
    \/ \E t \in Threads, id \in RoutineIds : StartMsg(t, id)
    \/ \E t \in Threads : cb_start_routine(t)
    \/ cb_planner_pause
    \/ \E y \in YawSet : cb_kiwibot_status(y)

Spec == Init /\ [][Next]_vars

\* The node with two worker threads and start messages for every id but
\* that of the routine of three hops.
NextShort ==
    \/ \E t \in Threads, id \in ShortIds : StartMsg(t, id)
    \/ \E t \in Threads : cb_start_routine(t)
    \/ cb_planner_pause
    \/ \E y \in YawSet : cb_kiwibot_status(y)

SpecShort == Init /\ [][NextShort]_vars

\* The node with one worker thread running cb_start_routine: the start
\* callbacks of a behaviour run one after the other.
NextSeq ==
    \/ \E id \in RoutineIds : StartMsg("t1", id)
    \/ cb_start_routine("t1")
    \/ cb_planner_pause
    \/ \E y \in YawSet : cb_kiwibot_status(y)

SpecSeq == Init /\ [][NextSeq]_vars

\* The node with both files in place and two worker threads, the start
\* messages for routine 4 or for the id that is not configured.
InitPair == Init /\ yaml_exists /\ csv_exists

NextPair ==
    \/ \E t \in Threads, id \in {4, 9} : StartMsg(t, id)
    \/ \E t \in Threads : cb_start_routine(t)
    \/ cb_planner_pause
    \/ \E y \in YawSet : cb_kiwibot_status(y)

SpecPair == InitPair /\ [][NextPair]_vars

----------------------------------------------------------------------------
\* Direct calls of the profile methods on an idle node

\* Largest sample count n of a direct call.
MaxSamples == 10

ProfCoords == {<<0, 0>>, <<100, 0>>, <<100, 50>>}

ProfTimes == {0, 7, 10}

ProfPts == {<<0, 1>>, <<3, 10>>, <<1, 2>>, <<1, 1>>}

\* Target angles in tenths of a degree: 0, 90 and -0.6 degrees.
TurnAngles == {0, 900, -6}

TurnTimes == {0, 3}

TurnPts == {<<0, 1>>, <<3, 10>>, <<1, 1>>}

\* One direct call of either method on the idle node.  The files are
\* present; the profile methods read neither.
InitProfile ==
    /\ NodeInit /\ yaml_exists /\ csv_exists
    /\ call \in
          {[NoCall EXCEPT !.fn = "get_profile_route", !.src = s, !.dst = d,
                          !.time = tm, !.pt = p, !.n = c] :
              s \in ProfCoords, d \in ProfCoords, tm \in ProfTimes,
              p \in ProfPts, c \in 0..MaxSamples}
          \cup
          {[NoCall EXCEPT !.fn = "get_profile_turn", !.ang = g, !.time = tm,
                          !.pt = p, !.n = c] :
              g \in TurnAngles, tm \in TurnTimes, p \in TurnPts,
              c \in 0..MaxSamples}

CallProfileRoute ==
    /\ call.fn = "get_profile_route" /\ ~call.done
    /\ call' = [call EXCEPT
                  !.done = TRUE,
                  !.ret = get_profile_route(call.src, call.dst, call.time,
                                            call.pt, call.n)]
    /\ UNCHANGED <<shared, yaml_exists, routines, csv_exists, csv, pc, rid,
                   idx, n, dang, resolved, out, starts, rk>>

CallProfileTurn ==
    /\ call.fn = "get_profile_turn" /\ ~call.done
    /\ call' = [call EXCEPT
                  !.done = TRUE,
                  !.ret = get_profile_turn(call.ang, call.time, call.pt,
                                           call.n)]
    /\ UNCHANGED <<shared, yaml_exists, routines, csv_exists, csv, pc, rid,
                   idx, n, dang, resolved, out, starts, rk>>

NextProfile == CallProfileRoute \/ CallProfileTurn

SpecProfile == InitProfile /\ [][NextProfile]_vars

----------------------------------------------------------------------------
\* First routine resolution of a fresh node, over a range of maps and routines

\* Largest number of rows of key_points.csv.
MaxEdges == 3

\* Rows a csv is made of: two rows for the triple (1, 2, 0) that differ in
\* destination coordinate, difficulty, distance and time, one row 2 -> 3 and
\* one row 1 -> 2 with trajectory code 1.  The difficulties 2.01 and 2.02
\* have a mean, and the distances 100 and 101.5 a sum, whose third decimal
\* is a 5.
EdgePool ==
    { Edge(1, <<0, 0>>, 2, <<100, 0>>, 201, 0, 1000, 10),
      Edge(1, <<0, 0>>, 2, <<100, 50>>, 400, 0, 1500, 12),
      Edge(2, <<100, 0>>, 3, <<100, 100>>, 202, 0, 1015, 8),
      Edge(1, <<0, 0>>, 2, <<100, 0>>, 100, 1, 2004, 20) }

StopsPool ==
    { << <<1, 0>>, <<2, 0>> >>,
      << <<1, 0>>, <<2, 0>>, <<3, 0>> >>,
      << <<1, 1>>, <<2, 0>>, <<3, 0>> >>,
      << <<2, 0>>, <<3, 1>> >> }

SeqsUpTo(S, k) == UNION {[1..m -> S] : m \in 0..k}

InitResolve ==
    /\ in_execution = FALSE
    /\ is_paused = FALSE
    /\ yaw = SgnZero
    /\ yaml_exists = TRUE
    /\ routines \in {1 :> stops : stops \in StopsPool}
    /\ csv_exists = TRUE
    /\ csv \in SeqsUpTo(EdgePool, MaxEdges)
    /\ map_points = <<>>
    /\ map_duration = 0
    /\ map_distance = DblZero
    /\ map_difficulty = DblZero
    /\ way_points = EmptyWayPoints
    /\ pc = [t \in Threads |-> "idle"]
    /\ rid = [t \in Threads |-> 0]
    /\ idx = [t \in Threads |-> 0]
    /\ n = [t \in Threads |-> 0]
    /\ dang = [t \in Threads |-> SgnZero]
    /\ resolved = [t \in Threads |-> "none"]
    /\ out = [t \in Threads |-> <<>>]
    /\ starts = 0
    /\ rk = [t \in Threads |-> NoFrame]
    /\ call = NoCall

\* The start callback up to and including its call of read_keypoints.
NextResolve ==
    \/ StartMsg("t1", 1)
    \/ Gate("t1")
    \/ SetExec("t1")
    \/ Lookup("t1")
    \/ Resolve("t1")

SpecResolve == InitResolve /\ [][NextResolve]_vars

----------------------------------------------------------------------------
\* The node with one worker thread, a map on the axes or one off them, and
\* headings off the axes

\* Headings the status callback reports: on an axis, and 0.4 and 0.6 degrees
\* to either side of the x axis.
FineYaws ==
    {SInt(0), SInt(-90), SFlt32(4, 10), SFlt32(-4, 10), SFlt32(6, 10),
     SFlt32(-6, 10)}

\* A key_points.csv whose two edges run off the axes and the diagonals.
ObliqueCsv ==
    << Edge(1, <<0, 0>>, 2, <<100, 50>>, 200, 0, 1118, 10),
       Edge(2, <<100, 50>>, 1, <<0, 0>>, 300, 0, 1118, 8) >>

InitHeading ==
    /\ in_execution = FALSE
    /\ is_paused = FALSE
    /\ yaw = SgnZero
    /\ yaml_exists = TRUE
    /\ routines = RoutinesYaml
    /\ csv_exists = TRUE
    /\ csv \in {KeyPointsCsv, ObliqueCsv}
    /\ map_points = <<>>
    /\ map_duration = 0
    /\ map_distance = DblZero
    /\ map_difficulty = DblZero
    /\ way_points = EmptyWayPoints
    /\ pc = [t \in Threads |-> "idle"]
    /\ rid = [t \in Threads |-> 0]
    /\ idx = [t \in Threads |-> 0]
    /\ n = [t \in Threads |-> 0]
    /\ dang = [t \in Threads |-> SgnZero]
    /\ resolved = [t \in Threads |-> "none"]
    /\ out = [t \in Threads |-> <<>>]
    /\ starts = 0
    /\ rk = [t \in Threads |-> NoFrame]
    /\ call = NoCall

NextHeading ==
    \/ \E id \in RoutineIds : StartMsg("t1", id)
    \/ cb_start_routine("t1")
    \/ cb_planner_pause
    \/ \E y \in FineYaws : cb_kiwibot_status(y)

SpecHeading == InitHeading /\ [][NextHeading]_vars

----------------------------------------------------------------------------
\* The node with one worker thread and pause signals outside the runs only

\* Thread t is idle, or in a run that has made its last test of
\* self.is_paused: on its last segment or past the loop.
PastLastCheck(t) ==
    \/ pc[t] \in {"idle", "after", "reset"}
    \/ /\ pc[t] \in {"heading", "heading_y1", "heading_x1", "heading_x0",
                    "heading_yaw", "turn", "turn_call", "move", "move_call"}
       /\ idx[t] + 1 >= n[t]

NextStalePause ==
    \/ \E id \in RoutineIds : StartMsg("t1", id)
    \/ cb_start_routine("t1")
    \/ PastLastCheck("t1") /\ cb_planner_pause
    \/ \E y \in YawSet : cb_kiwibot_status(y)

SpecStalePause == Init /\ [][NextStalePause]_vars

----------------------------------------------------------------------------
\* Vocabulary of the properties

\* The sum of the integers of s.
RECURSIVE SumSeq(_)
SumSeq(s) == IF s = <<>> THEN 0 ELSE s[1] + SumSeq(Tail(s))

\* The invocation on thread t passed the busy gate and has not returned.
Running(t) == pc[t] \notin {"idle", "gate"}

\* Segment indices of the move calls issued in s, in order (the direct
\* placement on coords[0] is the move with index -1).
MoveIdxs(s) ==
    LET IsSeg(e) == e.k = "move" /\ e.i >= 0
        m == SelectSeq(s, IsSeg)
    IN  [j \in 1..Len(m) |-> m[j].i]

Upto(k) == [j \in 1..k |-> j - 1]

Dispatched(s) == {"move", "turn"} \cap Kinds(s) # {}

Announced(s) == {"stopped", "finished"} \cap Kinds(s) # {}

ErrorKinds ==
    {"error_dispatch", "error_index", "error_resolve", "error_attribute"}

\* The loop of thread t took the pause branch before segment idx[t].
PauseAborted(t) ==
    /\ idx[t] < n[t]
    /\ \/ pc[t] \in {"abort", "unpause", "after"}
       \/ pc[t] \in {"reset", "idle"} /\ Announced(out[t])

----------------------------------------------------------------------------
\* Properties

\* C1: at most one invocation of cb_start_routine is between passing the
\* busy gate and returning, whatever the interleaving of start callbacks
\* and pause signals.
C1_MutualExclusion ==
    \A t1, t2 \in Threads : Running(t1) /\ Running(t2) => t1 = t2

\* C2: whenever an invocation that passed the busy gate returns, whatever
\* its outcome (also for a routine id that is not configured), in_execution
\* is false, so that the next start request is accepted.
C2_ReturnsIdle ==
    [][\A t \in Threads :
          Running(t) /\ pc'[t] = "idle" => in_execution' = FALSE]_vars

\* C3: read_keypoints either returns a route covering every hop of the
\* request, with len(coords) = len(times) + 1, or fails and exposes nothing
\* of what earlier matched hops accumulated.
C3_AllOrNothing ==
    \A t \in Threads :
        pc[t] = "assign" =>
            LET key_Points == routines[rid[t]]
                r == rk[t].way_points
            IN  \/ r = EmptyWayPoints
                \/ /\ Complete(r, key_Points)
                   /\ Len(r.coords) = Len(r.times) + 1

\* C4: an invocation whose route resolution failed (a hop without a matching
\* edge at any position, or no csv file) makes no move or turn call.
C4_NoDispatchOnFailure ==
    \A t \in Threads : resolved[t] = "failed" => ~Dispatched(out[t])

\* C5: when the loop finds paused set before segment k, exactly the segments
\* 0..k-1 were dispatched and none is dispatched later in this run, paused
\* is cleared, the run returns with in_execution false and announces
\* "stopped", not "finished"; a pause signal that arrives during a dispatch
\* call leaves that call running.
C5_PauseAbortsBetweenSegments ==
    [][\A t \in Threads :
          /\ PauseAborted(t)' =>
                /\ MoveIdxs(out'[t]) = Upto(idx'[t])
                /\ Announced(out'[t]) =>
                      "stopped" \in Kinds(out'[t])
                      /\ "finished" \notin Kinds(out'[t])
          /\ pc[t] = "unpause" /\ pc'[t] = "after" => ~is_paused'
          /\ PauseAborted(t) /\ pc[t] = "reset" /\ pc'[t] = "idle"
                => ~in_execution'
          /\ pc[t] \in {"origin_call", "turn_call", "move_call"}
             /\ ~is_paused /\ is_paused'
                => pc'[t] = pc[t] /\ out'[t] = out[t]]_vars

\* C6: a start request that finds in_execution true returns at once and
\* changes neither the flags, the stored route, the edge store nor the map
\* metrics, and emits no move, turn, announcement or recording signal.
C6_BusyChangesNothing ==
    [][\A t \in Threads :
          pc[t] = "gate" /\ in_execution /\ pc'[t] # "gate" =>
              /\ pc'[t] = "idle"
              /\ Kinds(out'[t]) = {"busy"}
              /\ UNCHANGED <<in_execution, is_paused, way_points, map_points,
                             map_duration, map_distance, map_difficulty>>]_vars

\* A request was rejected as busy while another invocation was running.
C6_Witness ==
    \E t, u \in Threads :
        /\ pc[t] = "idle" /\ out[t] = <<Ev("busy", 0)>>
        /\ Running(u) /\ in_execution

\* C7: when a routine run ends, whatever its outcome and however pause
\* signals interleave with it, in_execution and paused are both false.
C7_FlagsResetAtEnd ==
    [][\A t \in Threads :
          pc[t] = "reset" /\ pc'[t] = "idle"
              => ~in_execution' /\ ~is_paused']_vars

\* C8: the heading delta used after the wraparound branches lies in
\* (-180, 180] degrees.
C8_DangNormalized ==
    \A t \in Threads :
        pc[t] \in {"turn", "move"} =>
            SgnLess(SgnNeg(Sgn180), dang[t]) /\ ~SgnLess(Sgn180, dang[t])

\* C9: a run that ends by abort (pause, or a hop of the routine that did not
\* resolve) announces "stopped" and not "finished"; "finished" is announced
\* only when every hop of the routine was resolved and dispatched.
C9_StoppedVersusFinished ==
    \A t \in Threads :
        pc[t] = "idle" =>
            /\ resolved[t] = "failed" \/ PauseAborted(t) =>
                  "stopped" \in Kinds(out[t])
                  /\ "finished" \notin Kinds(out[t])
            /\ "finished" \in Kinds(out[t]) =>
                  /\ resolved[t] = "ok"
                  /\ MoveIdxs(out[t]) = Upto(Len(routines[rid[t]]) - 1)

\* C10: once a move or turn call of a run has raised (or any other fault was
\* caught), that run issues no further call and emits nothing more, goes to
\* the statement after the try, and returns with in_execution false.
C10_FaultStopsRun ==
    [][\A t \in Threads :
          Kinds(out'[t]) \cap ErrorKinds # {} =>
              /\ Last(out'[t]).k \in ErrorKinds
              /\ pc'[t] \in {"reset", "idle"}
              /\ pc[t] = "reset" /\ pc'[t] = "idle" => ~in_execution']_vars

\* A move call of the segment loop raised with segments still to go, and
\* the run has returned.
C10_Witness ==
    \E t \in Threads :
        /\ pc[t] = "idle"
        /\ "error_dispatch" \in Kinds(out[t])
        /\ MoveIdxs(out[t]) # <<>>
        /\ idx[t] + 1 < n[t]
        /\ ~in_execution

\* C11: the aggregate distance and duration a routine invocation announces
\* are the sums over the edges matched in that invocation only, whatever
\* was resolved before.
C11_AggregatesPerResolution ==
    [][\A t \in Threads :
          pc[t] = "assign" /\ pc'[t] = "publish" =>
              /\ map_duration' = SumSeq(way_points'.times)
              /\ Abs(10 * PyRound2(map_distance')
                     - SumSeq(way_points'.distances)) <= 5]_vars

\* C12: once the edge store has been loaded, no later routine resolution
\* changes its contents or its size.
C12_EdgeStoreReadOnly ==
    [][Len(csv) > 0 /\ Len(map_points) >= Len(csv) =>
          map_points' = map_points]_vars

\* A linear profile call is over, by a return or by an exception.
RouteCalled == call.fn = "get_profile_route" /\ call.done

\* A returned linear profile call.
RouteDone == RouteCalled /\ ~call.ret.raised

\* The acceleration fraction of the call is in the range (0, 1) the
\* profile generator is specified for.
PtInRange == 0 < call.pt[1] /\ call.pt[1] < call.pt[2]

\* The call of the scenario: (0,0) -> (100,0), time 10, pt 0.3, n 10.
Scenario ==
    /\ call.src = <<0, 0>> /\ call.dst = <<100, 0>>
    /\ call.time = 10 /\ call.pt = <<3, 10>> /\ call.n = 10

\* x and y are at most k units in the last place of y apart.
DblWithin(x, y, k) ==
    LET al == Aligned(x, y)
        d == IF LessBits(al.a, al.b) THEN SubBits(al.b, al.a)
             ELSE SubBits(al.a, al.b)
    IN  Len(d) <= 16 /\ BitsToInt(d) <= k * Pow2(y.e - al.e)

\* The returned samples of a linear profile call are n, indexed 0..n-1 in
\* order, with strictly increasing t and dt = time / n on every sample.
SamplesInOrder ==
    LET w == call.ret.samples IN
    /\ Len(w) = call.n
    /\ \A k \in 1..Len(w) :
          w[k].idx = k - 1 /\ w[k].dt = Dbl(call.time, call.n)
    /\ \A k \in 1..(Len(w) - 1) : DblLess(w[k].t, w[k + 1].t)

\* C13: a linear profile call with time > 0 and n >= 1 returns exactly n
\* samples, indexed 0..n-1 in order, with t_k = (k+1) * time / n strictly
\* increasing, dt = time / n on every sample and the last t equal to time.
C13_TimeDiscretization ==
    RouteCalled /\ call.time > 0 /\ call.n >= 1 =>
        LET w == call.ret.samples IN
        /\ ~call.ret.raised
        /\ SamplesInOrder
        /\ \A k \in 1..Len(w) : w[k].t = Dbl(k * call.time, call.n)
        /\ w[Len(w)].t = Dbl(call.time, 1)

\* C13 as amended: a linear profile call with time > 0, n >= 1 and
\* 0 < pt < 1 returns exactly n samples, indexed 0..n-1 in order, with
\* strictly increasing t, dt = time / n on every sample, and t_k equal to
\* (k+1) * time / n, the last t equal to time, up to the rounding of the n
\* floating point additions: at most n units in the last place.
C13_TimeDiscretizationRounded ==
    RouteCalled /\ call.time > 0 /\ call.n >= 1 /\ PtInRange =>
        LET w == call.ret.samples IN
        /\ ~call.ret.raised
        /\ SamplesInOrder
        /\ \A k \in 1..Len(w) :
              DblWithin(w[k].t, Dbl(k * call.time, call.n), call.n)
        /\ DblWithin(w[Len(w)].t, Dbl(call.time, 1), call.n)

\* A linear profile was returned whose last sample time is not the double
\* time.
C13_Witness ==
    /\ RouteDone /\ call.time > 0 /\ call.n >= 3 /\ PtInRange
    /\ call.ret.samples[call.n].t # Dbl(call.time, 1)

\* C14: the last sample of a linear profile with n >= 2 is at the
\* destination coordinate after rounding.
C14_LastSampleAtDestination ==
    RouteDone /\ call.n >= 2 =>
        call.ret.samples[call.n].pt = call.dst

\* C15: with dst.x > src.x, 0 < pt < 1 and n >= 2 the x of the samples never
\* decreases with the index and the first x is below dst.x; in the scenario
\* x increases strictly.
C15_MonotoneX ==
    RouteDone /\ call.dst[1] > call.src[1] /\ call.n >= 2
    /\ 0 < call.pt[1] /\ call.pt[1] < call.pt[2] =>
        LET w == call.ret.samples IN
        /\ \A k \in 1..(Len(w) - 1) : w[k].pt[1] <= w[k + 1].pt[1]
        /\ w[1].pt[1] < call.dst[1]
        /\ Scenario => \A k \in 1..(Len(w) - 1) : w[k].pt[1] < w[k + 1].pt[1]

\* The scenario call has returned its ten samples.
C15_Witness == RouteDone /\ Scenario /\ Len(call.ret.samples) = 10

\* C17: an angular profile call with target angle 0 returns the empty
\* sequence, also for a time, pt or n with which another angle faults.
C17_ZeroAngleEmpty ==
    call.fn = "get_profile_turn" /\ call.done /\ call.ang = 0 =>
        ~call.ret.raised /\ call.ret.samples = <<>>

\* A call with angle 0 and n = 0, time = 0 has returned.
C17_Witness ==
    /\ call.fn = "get_profile_turn" /\ call.done /\ call.ang = 0
    /\ call.n = 0 /\ call.time = 0

\* C16: in every state, delivering the pause signal twice leaves the same
\* state as delivering it once: paused is true after one delivery and after
\* two, and a delivery changes nothing but paused.
C16_PauseIdempotent ==
    [][/\ paused_after(is_paused) = TRUE
       /\ paused_after(paused_after(is_paused)) = paused_after(is_paused)
       /\ ~is_paused /\ is_paused' =>
             UNCHANGED <<in_execution, yaw, map_points, map_duration,
                         map_distance, map_difficulty, way_points, env, rk, pc,
                         rid, idx, n, dang, resolved, out, starts>>]_vars

\* The pause signal was delivered while a routine was running.
C16_Witness == is_paused /\ \E t \in Threads : Running(t) /\ in_execution

\* Edge j of the store matches hop i of key_Points.
HopMatch(j, key_Points, i) ==
    /\ map_points[j].src_id = key_Points[i][1]
    /\ map_points[j].dst_id = key_Points[i + 1][1]
    /\ map_points[j].code = key_Points[i][2]

\* The last edge in storage order that matches hop i.
LastMatching(key_Points, i) ==
    map_points[CHOOSE j \in 1..Len(map_points) :
                  /\ HopMatch(j, key_Points, i)
                  /\ \A j2 \in (j + 1)..Len(map_points) :
                        ~HopMatch(j2, key_Points, i)]

\* read_keypoints has just returned a route for every hop to thread t.
JustResolved(t) == pc[t] = "publish" /\ resolved[t] = "ok"

\* C18: on a successful resolution every hop i is matched on (source id,
\* destination id, code of stop i) and the last matching edge in storage
\* order gives coords[0] (hop 0), coords[i+1] and segment_durations[i]; the
\* single edge 1 (0,0) -> 2 (100,0), 10 s, code 0, with stops [(1,0),(2,0)]
\* gives coords = [(0,0),(100,0)] and segment_durations = [10].
C18_LastMatchUsed ==
    \A t \in Threads :
        JustResolved(t) =>
            LET kp == routines[rid[t]] IN
            /\ way_points.coords[1] = LastMatching(kp, 1).src_coord
            /\ \A i \in 1..(Len(kp) - 1) :
                  /\ way_points.coords[i + 1] = LastMatching(kp, i).dst_coord
                  /\ way_points.times[i] = LastMatching(kp, i).time
            /\ csv = <<Edge(1, <<0, 0>>, 2, <<100, 0>>, 201, 0, 1000, 10)>>
               /\ kp = << <<1, 0>>, <<2, 0>> >> =>
                  /\ way_points.coords = << <<0, 0>>, <<100, 0>> >>
                  /\ way_points.times = <<10>>

\* A route was resolved over a store in which two edges with different
\* durations match its first hop.
C18_Witness ==
    \E t \in Threads :
        /\ JustResolved(t)
        /\ \E j1, j2 \in 1..Len(map_points) :
              /\ j1 < j2
              /\ HopMatch(j1, routines[rid[t]], 1)
              /\ HopMatch(j2, routines[rid[t]], 1)
              /\ map_points[j1].time # map_points[j2].time

\* C19: after the first successful resolution of a fresh node the aggregate
\* duration is the sum of segment_durations and the aggregate distance the
\* sum of the per-segment distances, up to the rounding to two decimals.
C19_AggregatesMatchWaypoints ==
    \A t \in Threads :
        JustResolved(t) /\ starts = 1 =>
            /\ map_duration = SumSeq(way_points.times)
            /\ Abs(10 * PyRound2(map_distance) - SumSeq(way_points.distances)) <= 5

\* The events of the given kinds in s, in order.
OfKinds(s, K) ==
    LET Is(e) == e.k \in K IN SelectSeq(s, Is)

\* Thread t ran its loop over every segment without a fault and without
\* taking the pause branch, and is past the end-of-run announcement.
CompletedRun(t) ==
    /\ pc[t] \in {"reset", "idle"}
    /\ Announced(out[t])
    /\ Kinds(out[t]) \cap ErrorKinds = {}
    /\ idx[t] = n[t]

\* The outputs of a completed run over k segments are in the order of the
\* callback: way points, recording start, the direct placement, then for
\* each segment in turn an optional turn immediately before its move.
DispatchOrder(s, k) ==
    LET d == OfKinds(s, {"waypoints", "record", "move", "turn"}) IN
    /\ Len(d) >= 4
    /\ d[1].k = "waypoints"
    /\ d[2] = Ev("record", 1)
    /\ d[3] = Ev("move", -1)
    /\ d[Len(d)] = Ev("record", 0)
    /\ \A j \in 4..(Len(d) - 1) :
          /\ d[j].k \in {"move", "turn"}
          /\ d[j].i \in 0..(k - 1)
          /\ d[j].k = "turn" => d[j + 1] = Ev("move", d[j].i)
    /\ MoveIdxs(s) = Upto(k)
    /\ Len(OfKinds(s, {"move"})) = k + 1
    /\ Len(OfKinds(s, {"turn"})) <= k

\* A thread waiting for a dispatch call to return issues no dispatch.
WaitsForReturn ==
    \A t \in Threads :
        pc[t] \in {"origin_call", "turn_call", "move_call"} =>
            OfKinds(out'[t], {"move", "turn"}) = OfKinds(out[t], {"move", "turn"})

\* C20: in a successful, unpaused run over k segments the way point
\* announcement precedes the recording start, which precedes one direct
\* placement on coords[0]; then for idx = 0..k-1 in order the optional turn
\* of segment idx precedes its move; no dispatch is issued before the
\* previous dispatch call has returned; there are exactly k+1 moves and at
\* most k turns.
C20_DispatchOrdering ==
    /\ [](\A t \in Threads : CompletedRun(t) => DispatchOrder(out[t], n[t]))
    /\ [][WaitsForReturn]_vars

\* A run over three segments with at least one turn has completed.
C20_Witness ==
    \E t \in Threads :
        /\ CompletedRun(t)
        /\ n[t] = 3
        /\ "turn" \in Kinds(out[t])
        /\ "finished" \in Kinds(out[t])

\* Thread t has dispatched a turn for the segment it is on.
TurnedFor(t) ==
    \E j \in 1..Len(out[t]) : out[t][j] = Ev("turn", idx[t])

\* C21: for each segment a turn is dispatched before the segment's move
\* exactly when the normalized heading delta rounds to a non-zero whole
\* degree (0.6 and -0.6 degrees turn, 0.4 does not); when it rounds to zero
\* no turn is dispatched for the segment.
C21_TurnIffRoundsNonZero ==
    \A t \in Threads :
        pc[t] = "move_call" =>
            (TurnedFor(t) <=> NearestInt(dang[t].mag.b, dang[t].mag.e) # 0)

\* Every recording start in s is followed in s by a recording stop.
RecordingPaired(s) ==
    \A j \in 1..Len(s) :
        s[j] = Ev("record", 1) =>
            \E j2 \in (j + 1)..Len(s) : s[j2] = Ev("record", 0)

\* C22: in every run, whatever its outcome (a fault after the recording
\* started included), each recording start is followed by a recording stop
\* before the run returns the node to idle.
C22_RecordingPaired ==
    \A t \in Threads : pc[t] = "idle" => RecordingPaired(out[t])

\* C23: a pause signal delivered while the node is idle, or after the last
\* between-segment check of a run, has no effect on the next accepted
\* routine: with no pause delivered during it, a run that reaches its
\* end-of-run announcement has dispatched all of its segments and announces
\* "finished".
C23_StalePauseHarmless ==
    \A t \in Threads :
        pc[t] \in {"reset", "idle"} /\ Announced(out[t]) =>
            /\ idx[t] = n[t]
            /\ MoveIdxs(out[t]) = Upto(n[t])
            /\ "finished" \in Kinds(out[t])

\* The id is a key of the configured routines.
Configured(id) == yaml_exists /\ id \in DOMAIN routines

\* Kinds of the outputs other than log lines.
ObservableKinds == {"waypoints", "record", "speaker", "move", "turn"}

\* The steps of an invocation for an id that is not configured leave the
\* pause flag, the edge store and the aggregates as they are.
UnknownIdFrame ==
    \A t \in Threads :
        pc'[t] # pc[t] /\ ~Configured(rid'[t]) =>
            UNCHANGED <<is_paused, map_points, map_duration, map_distance,
                        map_difficulty>>

\* C24: a start request for a routine id that is not in the configured
\* routines emits no way point announcement, no recording signal, no
\* audible trigger and no move or turn dispatch, and leaves paused, the edge
\* store and the aggregate map metrics unchanged.
C24_UnknownIdNoEffect ==
    /\ [](\A t \in Threads :
            ~Configured(rid[t]) => Kinds(out[t]) \cap ObservableKinds = {})
    /\ [][UnknownIdFrame]_vars

\* A request for an id outside the configured routines has been turned
\* down.
C24_Witness ==
    \E t \in Threads :
        /\ pc[t] = "idle"
        /\ yaml_exists
        /\ rid[t] \notin DOMAIN routines
        /\ "no_routine" \in Kinds(out[t])

====
